---------------------------- MODULE Spec2Model ----------------------------
(***************************************************************************)
(* Model of the SEAL video automation core:                                *)
(*   - TrendAnalyzer._score_and_rank_trends / get_trending_topics          *)
(*     (src/script_generator.py, src/trend_analyzer.py)                    *)
(*   - SEALVideoAutomation.generate_trending_content                       *)
(*     (src/main_automation_script.py)                                     *)
(*   - VoiceoverGenerator.create_voiceover and its fallback tiers          *)
(*     (src/voiceover_generator.py)                                        *)
(*                                                                         *)
(* Scores are Python floats in the source.  Here a score is an integer in  *)
(* units of 1/ScoreUnit, and a multiplier m (1.3, 0.9, ...) is applied as  *)
(* (x * 10m) \div 10.  With confidences that are multiples of 0.1 this is  *)
(* exact for two successive applications of the three multipliers.         *)
(* Products that are equal as real numbers are equal here; in floating     *)
(* point they may differ in the last bit unless both were clamped to 1.0.  *)
(***************************************************************************)
EXTENDS Integers, Sequences, FiniteSets, TLC

VARIABLES
    \* ---- ranking (TrendAnalyzer) ----
    given,        \* the candidate list as the source adapters produced it
    trends,       \* the same TrendTopic objects, as they are now (mutable)
    scored,       \* list returned by _score_and_rank_trends: indices into trends
    topics,       \* list returned by get_trending_topics: scored[:count]
    count,        \* the count argument
    calls,        \* completed calls of _score_and_rank_trends on this list
    prev,         \* order and scores returned by the previous call (history)
    \* ---- trend-based cycle (SEALVideoAutomation.generate_trending_content) ----
    pc,           \* position of generate_trending_content
    gathered,     \* per source: has its task finished, and the list it returned
    idx,          \* position of the for loop over trending_topics (1-based)
    started,      \* topics for which create_video_content was called (history)
    aggregate,    \* the results list of generate_trending_content
    \* ---- voice synthesis (VoiceoverGenerator.create_voiceover) ----
    api_key,      \* is ELEVENLABS_API_KEY set
    voice_configs,\* self.voice_configs: language -> settings
    env,          \* what each provider call of this run will answer
    vpc,          \* position of create_voiceover
    chunk_index,  \* next chunk of text_chunks to synthesise (0-based)
    audio_files,  \* paths of the chunks synthesised so far
    disk,         \* output/audio: path -> content
    result,       \* the string create_voiceover returned
    attempts,     \* the tiers tried so far with their outcome (history)
    \* ---- stage pipeline (SEALVideoAutomation.create_video_content) ----
    languages,    \* the languages argument
    include_affiliates,
    test_mode,    \* was --test-mode given (os.environ['TEST_MODE'] = 'true')
    ppc,          \* position of create_video_content
    lang_index,   \* position of the for loop over languages (1-based)
    stage,        \* the stage the current language is about to run
    artifacts,    \* script_data, audio_path, video_path of the current language
    results,      \* the results dict: language -> entry
    trace,        \* every stage call so far with its outcome (history)
    \* ---- continuous mode and deferred feedback (main, run_automation_cycle) ----
    mpc,          \* position of main
    cycles,       \* calls of run_automation_cycle so far
    now,          \* the event loop's clock, in hours
    main_wake,    \* when main's asyncio.sleep(86400) is due
    tasks,        \* the feedback tasks created so far
    collected,    \* every call of collect_video_metrics so far (history)
    \* ---- text splitting (VoiceoverGenerator._split_text_for_tts) ----
    text,         \* the text argument, a sequence of characters
    max_chars,    \* the max_chars argument
    text_chunks,  \* the list returned
    split_pc,     \* position of _split_text_for_tts
    \* ---- forum source (TrendAnalyzer._get_reddit_trends) ----
    rpc,          \* position of _get_reddit_trends
    sub_index,    \* position of the for loop over subreddits (1-based)
    rclock,       \* the clock, in units of the rate-limit delay (0.5 s)
    reddit_trends,\* the trends list built so far, then the list returned
    requests      \* every session.get so far: when sent, when ended, outcome (history)

rankVars == <<given, trends, scored, topics, count, calls, prev>>
cycleVars == <<pc, gathered, idx, started, aggregate>>
pipeVars == <<languages, include_affiliates, test_mode, ppc, lang_index, stage,
              artifacts, results, trace>>
voiceVars == <<api_key, voice_configs, env, vpc, chunk_index, audio_files, disk, result,
               attempts>>
autoVars == <<mpc, cycles, now, main_wake, tasks, collected>>
splitVars == <<text, max_chars, text_chunks, split_pc>>
redditVars == <<rpc, sub_index, rclock, reddit_trends, requests>>
unitVars == <<splitVars, redditVars>>

vars == <<rankVars, cycleVars, voiceVars, pipeVars, autoVars, unitVars>>

\* ------------------------------------------------------------------ bounds
MaxTrends == 3      \* longest candidate list handed to the ranking step
MaxCount == 3       \* largest count argument
MaxRankCalls == 2   \* how often the same list is ranked
MaxPerSource == 2   \* most candidates one source adapter returns
MaxChunks == 3      \* most chunks _split_text_for_tts returns
MaxLangs == 2       \* longest languages argument of create_video_content
MaxCycles == 2      \* most cycles of the continuous loop
MaxTopics == 2      \* longest results list handed to a feedback task
MaxLate == 1        \* hours a due timer may still be waiting
MaxTextLen == 5     \* longest text handed to _split_text_for_tts
MaxLimit == 3       \* largest max_chars
MaxSubreddits == 3  \* length of the subreddits list (8 in the code)

\* ------------------------------------------------------- TrendTopic values
ScoreUnit == 10000000   \* the float 1.0

Conf(tenths) == tenths * (ScoreUnit \div 10)

NoTitle == ""           \* a missing title

Categories == {"finance", "tech", "education", "lifestyle", "entertainment", "general"}
Sources == {"google_trends", "youtube", "reddit"}
Volumes == {50, 500, 501, 1000, 1001, 1200}

TrendTopic(title, category, search_volume, growth_rate, region, source, confidence_score) ==
    [title |-> title, category |-> category, search_volume |-> search_volume,
     growth_rate |-> growth_rate, region |-> region, source |-> source,
     confidence_score |-> confidence_score]

\* Every well-formed or title-less candidate over the tables' boundary values.
AllCandidates ==
    { TrendTopic(t, c, v, 5, "US", s, Conf(k)) :
        t \in {"topic", NoTitle}, c \in Categories, v \in Volumes,
        s \in Sources, k \in 0..10 }

\* A few candidates used in the longer lists: two that clamp to 1.0 from
\* different sources, the spec's two examples, unclamped ones and a
\* title-less one.
AIMoney == TrendTopic("AI money", "finance", 1200, 6, "US", "youtube", Conf(8))
FunnyCat == TrendTopic("funny cat", "entertainment", 50, 5, "Global", "reddit", Conf(6))
ListCandidates ==
    { AIMoney, FunnyCat,
      TrendTopic("5 money Tips", "finance", 1000, 8, "US", "google_trends", Conf(7)),
      TrendTopic("My day", "general", 1000, 8, "US", "google_trends", Conf(7)),
      TrendTopic("investing", "finance", 1500, 5, "Global", "reddit", Conf(6)),
      TrendTopic("viral story", "entertainment", 150, 6, "US", "youtube", Conf(8)),
      TrendTopic(NoTitle, "tech", 600, 5, "Global", "reddit", Conf(6)) }

SeqsUpTo(S, n) == UNION { [1..k -> S] : k \in 0..n }

CandidateLists == [1..1 -> AllCandidates] \cup SeqsUpTo(ListCandidates, MaxTrends)

\* ------------------------------------------------- _score_and_rank_trends
\* category_bonus.get(trend.category, 1.0), in tenths
CategoryBonus(category) ==
    CASE category = "finance" -> 13
      [] category = "tech" -> 12
      [] category = "education" -> 11
      [] category = "lifestyle" -> 9
      [] category = "entertainment" -> 8
      [] OTHER -> 10

\* source_bonus.get(trend.source, 1.0), in tenths
SourceBonus(source) ==
    CASE source = "youtube" -> 12
      [] source = "google_trends" -> 11
      [] source = "reddit" -> 9
      [] OTHER -> 10

VolumeBonusOffByOne(search_volume) ==
    IF search_volume >= 1000 THEN 12
    ELSE IF search_volume >= 500 THEN 11
    ELSE 10

\* the search-volume branch, in tenths
VolumeBonus(search_volume) ==
    IF search_volume > 1000 THEN 12
    ELSE IF search_volume > 500 THEN 11
    ELSE 10

Times(x, tenths) == (x * tenths) \div 10

Min(a, b) == IF a <= b THEN a ELSE b

\* base_score after the three multiplications, then min(base_score, 1.0)
FinalScore(trend) ==
    Min(Times(Times(Times(trend.confidence_score, CategoryBonus(trend.category)),
                    SourceBonus(trend.source)),
              VolumeBonus(trend.search_volume)),
        ScoreUnit)

ScoreTrendResetVolume(trend) ==
    [trend EXCEPT !.confidence_score = FinalScore(trend), !.search_volume = 0]

\* one iteration of the loop: trend.confidence_score is overwritten in place
ScoreTrend(trend) == [trend EXCEPT !.confidence_score = FinalScore(trend)]

RECURSIVE InsertAscending(_, _, _)
InsertAscending(objs, lst, i) ==
    IF lst = <<>> THEN <<i>>
    ELSE IF objs[Head(lst)].confidence_score <= objs[i].confidence_score
         THEN <<Head(lst)>> \o InsertAscending(objs, Tail(lst), i)
         ELSE <<i>> \o lst

RECURSIVE InsertUnstable(_, _, _)
InsertUnstable(objs, lst, i) ==
    IF lst = <<>> THEN <<i>>
    ELSE IF objs[Head(lst)].confidence_score > objs[i].confidence_score
         THEN <<Head(lst)>> \o InsertUnstable(objs, Tail(lst), i)
         ELSE <<i>> \o lst

\* sorted(..., key=confidence_score, reverse=True) is stable: an element is
\* placed after every element whose score is greater or equal.
RECURSIVE InsertByScore(_, _, _)
InsertByScore(objs, lst, i) ==
    IF lst = <<>> THEN <<i>>
    ELSE IF objs[Head(lst)].confidence_score >= objs[i].confidence_score
         THEN <<Head(lst)>> \o InsertByScore(objs, Tail(lst), i)
         ELSE <<i>> \o lst

RECURSIVE SortedByScore(_, _)
SortedByScore(objs, n) ==
    IF n = 0 THEN <<>>
    ELSE InsertByScore(objs, SortedByScore(objs, n - 1), n)

RankedListDropUntitled(objs) ==
    SelectSeq(SortedByScore(objs, Len(objs)), LAMBDA i : objs[i].title # NoTitle)

\* the returned list: every element of trends, sorted (title is never read)
RankedList(objs) == SortedByScore(objs, Len(objs))

\* scored_trends[:count]
Slice(lst, n) == SubSeq(lst, 1, Min(n, Len(lst)))

ScoresOf(objs, order) == [k \in 1..Len(order) |-> objs[order[k]].confidence_score]

\* --------------------------------------------------------- idle components
RankIdle ==
    /\ given = <<>>
    /\ trends = <<>>
    /\ scored = <<>>
    /\ topics = <<>>
    /\ count = 0
    /\ calls = 0
    /\ prev = [order |-> <<>>, scores |-> <<>>]

NoGather == [s \in Sources |-> [done |-> FALSE, failed |-> FALSE, list |-> <<>>]]

CycleIdle ==
    /\ pc = "idle"
    /\ gathered = NoGather
    /\ idx = 1
    /\ started = <<>>
    /\ aggregate = <<>>

\* what a stage returned: its kind, and the language and loop iteration it
\* was made for
Artifact(kind, lang, run) == [kind |-> kind, lang |-> lang, run |-> run]
NoArtifact == Artifact("none", "", 0)
NoArtifacts == [script |-> NoArtifact, audio_path |-> NoArtifact, video_path |-> NoArtifact]

PipeIdle ==
    /\ languages = <<>>
    /\ include_affiliates = FALSE
    /\ test_mode = FALSE
    /\ ppc = "idle"
    /\ lang_index = 1
    /\ stage = "script"
    /\ artifacts = NoArtifacts
    /\ results = <<>>
    /\ trace = <<>>

AutoIdle ==
    /\ mpc = "none"
    /\ cycles = 0
    /\ now = 0
    /\ main_wake = 0
    /\ tasks = <<>>
    /\ collected = <<>>

SplitIdle ==
    /\ text = <<>>
    /\ max_chars = 0
    /\ text_chunks = <<>>
    /\ split_pc = "idle"

RedditIdle ==
    /\ rpc = "idle"
    /\ sub_index = 1
    /\ rclock = 0
    /\ reddit_trends = <<>>
    /\ requests = <<>>

UnitIdle == SplitIdle /\ RedditIdle

Path(kind, i) == [kind |-> kind, idx |-> i]
None == Path("None", 0)             \* Python None / not yet returned
EmptyString == Path("", 0)          \* the string ""
ChunkPath(i) == Path("chunk", i)    \* voice_<lang>_<ts>_chunk<i>.mp3
FinalPath == Path("final", 0)       \* voice_<lang>_<ts>_final.mp3
FallbackPath == Path("fallback", 0) \* voice_fallback_<lang>_<ts>.mp3
SilentPath == Path("silent", 0)     \* voice_silent_<lang>_<ts>.mp3

Absent == [kind |-> "absent", covers |-> <<>>, seconds |-> 0]
Speech(chunks) == [kind |-> "speech", covers |-> chunks, seconds |-> 0]
Silence(seconds) == [kind |-> "silence", covers |-> <<>>, seconds |-> seconds]

AudioPaths == { ChunkPath(i) : i \in 0..MaxChunks } \cup {FinalPath, FallbackPath, SilentPath}

EmptyDisk == [p \in AudioPaths |-> Absent]

\* self.voice_configs as __init__ builds it (lines 28-61), for two of its
\* four languages; stability, similarity_boost and style in tenths
Settings(voice_id, stability, similarity_boost, style) ==
    [voice_id |-> voice_id, stability |-> stability,
     similarity_boost |-> similarity_boost, style |-> style]

VoiceConfigsAtInit ==
    [l \in {"en", "de"} |->
        IF l = "en" THEN Settings("Rachel", 5, 8, 0) ELSE Settings("Adam", 6, 7, 1)]

\* self.style_presets (lines 64-70), two of its five presets
StylePresets ==
    [st \in {"professional", "energetic"} |->
        IF st = "professional"
        THEN [stability |-> 6, similarity_boost |-> 8, style |-> 0]
        ELSE [stability |-> 4, similarity_boost |-> 9, style |-> 3]]

VoiceIdle ==
    /\ api_key = FALSE
    /\ voice_configs = VoiceConfigsAtInit
    /\ env = [chunk |-> <<>>, merge |-> "ok", gtts |-> "ok", silent |-> "ok"]
    /\ vpc = "idle"
    /\ chunk_index = 0
    /\ audio_files = <<>>
    /\ disk = EmptyDisk
    /\ result = None
    /\ attempts = <<>>

\* ------------------------------------------------------------ SpecRank
InitRank ==
    /\ given \in CandidateLists
    /\ trends = given
    /\ scored = <<>>
    /\ topics = <<>>
    /\ count \in 0..MaxCount
    /\ calls = 0
    /\ prev = [order |-> <<>>, scores |-> <<>>]
    /\ CycleIdle
    /\ VoiceIdle
    /\ PipeIdle
    /\ AutoIdle
    /\ UnitIdle

\* get_trending_topics lines 548-552: score in place, sort, truncate
RankTrends ==
    /\ pc = "idle"
    /\ calls < MaxRankCalls
    /\ LET mutated == [i \in 1..Len(trends) |-> ScoreTrend(trends[i])]
           ranked == RankedList(mutated)
       IN /\ trends' = mutated
          /\ scored' = ranked
          /\ topics' = Slice(ranked, count)
    /\ prev' = [order |-> scored, scores |-> ScoresOf(trends, scored)]
    /\ calls' = calls + 1
    /\ UNCHANGED <<unitVars, given, count, cycleVars, voiceVars, pipeVars, autoVars>>

NextRank == RankTrends

SpecRank == InitRank /\ [][NextRank]_vars

\* ------------------------------------------------------------ SpecCycle
\* What the three source adapters build (script_generator.py 571-581,
\* 627-637, 675-685): fixed confidence, growth rate and region per source.
GoogleTopic(category) ==
    TrendTopic("google " \o category, category, 1000, 8, "US", "google_trends", Conf(7))
YoutubeTopic(category, views) ==
    TrendTopic("youtube " \o category, category, views \div 1000, 6, "US", "youtube", Conf(8))
RedditTopic(category, score) ==
    TrendTopic("reddit " \o category, category, score, 5, "Global", "reddit", Conf(6))

GoogleTopics == { GoogleTopic(c) : c \in {"finance", "general"} }
YoutubeTopics == { YoutubeTopic(c, 1200000) : c \in {"finance", "entertainment"} }
RedditTopics == { RedditTopic(c, 150) : c \in {"finance", "entertainment"} }

SourceTopics(s) ==
    CASE s = "google_trends" -> GoogleTopics
      [] s = "youtube" -> YoutubeTopics
      [] s = "reddit" -> RedditTopics

InitCycle ==
    /\ RankIdle
    /\ pc = "idle"
    /\ gathered = NoGather
    /\ idx = 1
    /\ started = <<>>
    /\ aggregate = <<>>
    /\ VoiceIdle
    /\ PipeIdle
    /\ AutoIdle
    /\ UnitIdle

\* generate_trending_content(count) calls get_trending_topics(count), which
\* starts the three source tasks.
GenerateTrendingContent ==
    /\ pc = "idle"
    /\ \E n \in 0..MaxCount : count' = n
    /\ pc' = "gather"
    /\ UNCHANGED <<unitVars, given, trends, scored, topics, calls, prev, gathered, idx,
                   started,
                   aggregate, voiceVars, pipeVars, autoVars>>

\* One source task finishes.  Each adapter catches its own exceptions
\* (except Exception: ... return []), so a source that failed returns the
\* empty list, whatever it had collected before the failure.
SourceReturns(s) ==
    /\ pc = "gather"
    /\ ~gathered[s].done
    /\ \E lst \in SeqsUpTo(SourceTopics(s), MaxPerSource), fails \in BOOLEAN :
          gathered' = [gathered EXCEPT ![s] =
                          [done |-> TRUE, failed |-> fails,
                           list |-> IF fails THEN <<>> ELSE lst]]
    /\ UNCHANGED <<unitVars, rankVars, pc, idx, started, aggregate, voiceVars, pipeVars,
                   autoVars>>

GetGoogleTrends == SourceReturns("google_trends")
GetYoutubeTrends == SourceReturns("youtube")
GetRedditTrends == SourceReturns("reddit")

AllTrendsLostOnFailure ==
    IF \E s \in Sources : gathered[s].failed THEN <<>>
    ELSE gathered["google_trends"].list \o gathered["youtube"].list
             \o gathered["reddit"].list

\* asyncio.gather returns the results in task order: google, youtube, reddit
AllTrends ==
    gathered["google_trends"].list \o gathered["youtube"].list \o gathered["reddit"].list

\* get_trending_topics lines 540-552
GetTrendingTopicsReturns ==
    /\ pc = "gather"
    /\ \A s \in Sources : gathered[s].done
    /\ LET mutated == [i \in 1..Len(AllTrends) |-> ScoreTrend(AllTrends[i])]
           ranked == RankedList(mutated)
       IN /\ given' = AllTrends
          /\ trends' = mutated
          /\ scored' = ranked
          /\ topics' = Slice(ranked, count)
    /\ calls' = calls + 1
    /\ idx' = 1
    /\ pc' = "loop"
    /\ UNCHANGED <<unitVars, count, prev, gathered, started, aggregate, voiceVars,
                   pipeVars, autoVars>>

\* TrendTopic is a dataclass without __getitem__: topic['title'] raises
\* TypeError.
TopicSubscriptable == FALSE

\* One iteration of the for loop (main_automation_script.py 62-72).  The
\* try block evaluates topic['title'] before create_video_content is
\* called; the except block evaluates topic['title'] again while it formats
\* its log message, so the TypeError leaves generate_trending_content.
ProcessTopic ==
    /\ pc = "loop"
    /\ idx <= Len(topics)
    /\ IF TopicSubscriptable
       THEN /\ started' = Append(started, topics[idx])
            /\ aggregate' = Append(aggregate, topics[idx])
            /\ idx' = idx + 1
            /\ pc' = "loop"
       ELSE /\ pc' = "raised"
            /\ UNCHANGED <<idx, started, aggregate>>
    /\ UNCHANGED <<unitVars, rankVars, gathered, voiceVars, pipeVars, autoVars>>

\* return results
ReturnResults ==
    /\ pc = "loop"
    /\ idx > Len(topics)
    /\ pc' = "returned"
    /\ UNCHANGED <<unitVars, rankVars, gathered, idx, started, aggregate, voiceVars,
                   pipeVars, autoVars>>

NextCycle ==
    \/ GenerateTrendingContent
    \/ GetGoogleTrends
    \/ GetYoutubeTrends
    \/ GetRedditTrends
    \/ GetTrendingTopicsReturns
    \/ ProcessTopic
    \/ ReturnResults

SpecCycle == InitCycle /\ [][NextCycle]_vars

\* ------------------------------------------------------------ SpecVoice
SilentSeconds == 30     \* '-t', '30'

ChunkOutcomes == {"ok", "http_error", "exception"}
\* ffmpeg concat: exit 0 and cleanup done; exit code not 0; an exception
\* before ffmpeg has run; an exception while the inputs are being unlinked
MergeOutcomes == {"ok", "ffmpeg_error", "exception", "cleanup_exception"}
GttsOutcomes == {"ok", "exception"}
\* ffmpeg anullsrc: exit 0; exit code not 0 (not looked at); subprocess.run raises
SilentOutcomes == {"ok", "ffmpeg_error", "exception"}

Attempt(tier, outcome) == [tier |-> tier, outcome |-> outcome]

InitVoice ==
    /\ RankIdle
    /\ CycleIdle
    /\ PipeIdle
    /\ AutoIdle
    /\ UnitIdle
    /\ api_key \in BOOLEAN
    /\ voice_configs = VoiceConfigsAtInit
    /\ \E n \in 1..MaxChunks :
          env \in [chunk : [1..n -> ChunkOutcomes], merge : MergeOutcomes,
                   gtts : GttsOutcomes, silent : SilentOutcomes]
    /\ vpc = "idle"
    /\ chunk_index = 0
    /\ audio_files = <<>>
    /\ disk = EmptyDisk
    /\ result = None
    /\ attempts = <<>>

\* text_chunks = self._split_text_for_tts(text)
NumChunks == Len(env.chunk)

\* the arguments of a create_voiceover call
RequestLanguages == {"en", "de", "fr"}           \* "fr" has no entry in voice_configs
VoiceStyles == {"professional", "energetic", "dramatic"}    \* "dramatic" is no preset
NoVoiceId == ""                                  \* custom_voice_id = None
CustomVoiceIds == {NoVoiceId, "custom"}

\* lines 89-98.  voice_config is the dict stored in self.voice_configs (for
\* an unconfigured language the 'en' one), not a copy: the assignment and
\* update() change the table.
ApplyVoiceConfig(configs, language, voice_style, custom_voice_id) ==
    LET key == IF language \in DOMAIN configs THEN language ELSE "en"
        c1 == IF custom_voice_id # NoVoiceId
              THEN [configs[key] EXCEPT !.voice_id = custom_voice_id]
              ELSE configs[key]
        c2 == IF voice_style \in DOMAIN StylePresets
              THEN [c1 EXCEPT !.stability = StylePresets[voice_style].stability,
                              !.similarity_boost = StylePresets[voice_style].similarity_boost,
                              !.style = StylePresets[voice_style].style]
              ELSE c1
    IN [configs EXCEPT ![key] = c2]

CreateVoiceoverSkipsPrimary ==
    /\ vpc = "idle"
    /\ attempts' = attempts
    /\ vpc' = "fallback"
    /\ chunk_index' = 0
    /\ audio_files' = <<>>
    /\ UNCHANGED <<unitVars, rankVars, cycleVars, pipeVars, autoVars, api_key,
                   voice_configs, env, disk, result>>

\* create_voiceover lines 81-102: without API key straight to
\* _create_fallback_audio, else split the text and start the chunk loop.
CreateVoiceover ==
    /\ vpc = "idle"
    /\ IF ~api_key
       THEN /\ attempts' = Append(attempts, Attempt(1, "failure"))
            /\ vpc' = "fallback"
            /\ voice_configs' = voice_configs
       ELSE /\ attempts' = attempts
            /\ vpc' = "chunks"
            /\ \E language \in RequestLanguages, voice_style \in VoiceStyles,
                  custom_voice_id \in CustomVoiceIds :
                  voice_configs' = ApplyVoiceConfig(voice_configs, language, voice_style,
                                                    custom_voice_id)
    /\ chunk_index' = 0
    /\ audio_files' = <<>>
    /\ UNCHANGED <<unitVars, rankVars, cycleVars, pipeVars, autoVars, api_key, env, disk,
                   result>>

\* One iteration of the chunk loop (lines 104-109) with
\* _generate_audio_chunk (150-196): status 200 writes the file and returns
\* its path; any other status or an exception returns None, which the loop
\* skips.
GenerateAudioChunk ==
    /\ vpc = "chunks"
    /\ chunk_index < NumChunks
    /\ IF env.chunk[chunk_index + 1] = "ok"
       THEN /\ disk' = [disk EXCEPT ![ChunkPath(chunk_index)] = Speech(<<chunk_index>>)]
            /\ audio_files' = Append(audio_files, ChunkPath(chunk_index))
       ELSE UNCHANGED <<disk, audio_files>>
    /\ chunk_index' = chunk_index + 1
    /\ UNCHANGED <<unitVars, rankVars, cycleVars, pipeVars, autoVars, api_key,
                   voice_configs, env, vpc, result, attempts>>

RECURSIVE Covered(_, _)
Covered(d, files) ==
    IF files = <<>> THEN <<>> ELSE d[Head(files)].covers \o Covered(d, Tail(files))

\* _merge_audio_files (198-238): the disk after the call.  unlinked is how
\* many input files were removed before the cleanup raised.
MergedDisk(d, files, outcome, unlinked) ==
    IF outcome \in {"ok", "cleanup_exception"}
    THEN [p \in AudioPaths |->
            IF p = FinalPath THEN Speech(Covered(d, files))
            ELSE IF \E k \in 1..Len(files) :
                       /\ files[k] = p
                       /\ (outcome = "ok" \/ k <= unlinked)
                 THEN Absent
                 ELSE d[p]]
    ELSE d

\* _merge_audio_files (198-238): the value returned
MergedPath(files, outcome) == IF outcome = "ok" THEN FinalPath ELSE files[1]

\* lines 112-115: final_audio
FinalAudio(files, outcome) ==
    IF Len(files) > 1 THEN MergedPath(files, outcome)
    ELSE IF Len(files) = 1 THEN files[1] ELSE None

\* create_voiceover lines 111-122 after the loop: merge when more than one
\* chunk file exists, return the final audio if there is one, otherwise go
\* on to _create_fallback_audio.
MergeAndReturn ==
    /\ vpc = "chunks"
    /\ chunk_index = NumChunks
    /\ LET final_audio == FinalAudio(audio_files, env.merge)
       IN /\ \E unlinked \in 0..Len(audio_files) :
                /\ IF Len(audio_files) > 1 /\ env.merge = "cleanup_exception"
                   THEN unlinked < Len(audio_files)
                   ELSE unlinked = 0
                /\ disk' = IF Len(audio_files) > 1
                           THEN MergedDisk(disk, audio_files, env.merge, unlinked)
                           ELSE disk
          /\ IF final_audio # None
             THEN /\ result' = final_audio
                  /\ attempts' = Append(attempts, Attempt(1, "success"))
                  /\ vpc' = "done"
             ELSE /\ result' = result
                  /\ attempts' = Append(attempts, Attempt(1, "failure"))
                  /\ vpc' = "fallback"
    /\ UNCHANGED <<unitVars, rankVars, cycleVars, pipeVars, autoVars, api_key,
                   voice_configs, env, chunk_index, audio_files>>

CreateFallbackAudioIgnoresSuccess ==
    /\ vpc = "fallback"
    /\ IF env.gtts = "ok"
       THEN disk' = [disk EXCEPT ![FallbackPath] = Speech([k \in 1..NumChunks |-> k - 1])]
       ELSE disk' = disk
    /\ attempts' = Append(attempts, Attempt(2, "failure"))
    /\ vpc' = "silent"
    /\ UNCHANGED <<unitVars, rankVars, cycleVars, pipeVars, autoVars, api_key,
                   voice_configs, env, chunk_index, audio_files, result>>

\* _create_fallback_audio (240-273): gTTS on the whole text; on any
\* exception go on to _create_silent_audio.
CreateFallbackAudio ==
    /\ vpc = "fallback"
    /\ IF env.gtts = "ok"
       THEN /\ disk' = [disk EXCEPT ![FallbackPath] = Speech([k \in 1..NumChunks |-> k - 1])]
            /\ result' = FallbackPath
            /\ attempts' = Append(attempts, Attempt(2, "success"))
            /\ vpc' = "done"
       ELSE /\ attempts' = Append(attempts, Attempt(2, "failure"))
            /\ vpc' = "silent"
            /\ UNCHANGED <<disk, result>>
    /\ UNCHANGED <<unitVars, rankVars, cycleVars, pipeVars, autoVars, api_key,
                   voice_configs, env, chunk_index, audio_files>>

\* _create_silent_audio (275-297): subprocess.run without check and without
\* a look at the return code, so a failed ffmpeg still returns the path and
\* logs the file as created; an exception returns "".
CreateSilentAudio ==
    /\ vpc = "silent"
    /\ CASE env.silent = "ok" ->
              /\ disk' = [disk EXCEPT ![SilentPath] = Silence(SilentSeconds)]
              /\ result' = SilentPath
              /\ attempts' = Append(attempts, Attempt(3, "success"))
         [] env.silent = "ffmpeg_error" ->
              /\ disk' = disk
              /\ result' = SilentPath
              /\ attempts' = Append(attempts, Attempt(3, "success"))
         [] env.silent = "exception" ->
              /\ disk' = disk
              /\ result' = EmptyString
              /\ attempts' = Append(attempts, Attempt(3, "failure"))
    /\ vpc' = "done"
    /\ UNCHANGED <<unitVars, rankVars, cycleVars, pipeVars, autoVars, api_key,
                   voice_configs, env, chunk_index, audio_files>>

NextVoice ==
    \/ CreateVoiceover
    \/ GenerateAudioChunk
    \/ MergeAndReturn
    \/ CreateFallbackAudio
    \/ CreateSilentAudio

SpecVoice == InitVoice /\ [][NextVoice]_vars

\* --------------------------------------------------------- SpecPipeline
\* create_video_content(topic, languages=..., include_affiliates=...) as
\* main() calls it for --topic (main_automation_script.py 222-229).
Languages == {"en", "de"}
Messages == {"timeout", "invalid response"}     \* str(e) of a stage's exception
Stages == <<"script", "affiliate", "voice", "render", "upload">>

InitPipeline ==
    /\ RankIdle
    /\ CycleIdle
    /\ VoiceIdle
    /\ AutoIdle
    /\ UnitIdle
    /\ languages \in SeqsUpTo(Languages, MaxLangs) \ {<<>>}
    /\ include_affiliates \in BOOLEAN
    /\ test_mode \in BOOLEAN
    /\ ppc = "idle"
    /\ lang_index = 1
    /\ stage = "script"
    /\ artifacts = NoArtifacts
    /\ results = <<>>
    /\ trace = <<>>

\* results = {} ; for lang in languages:
CreateVideoContent ==
    /\ ppc = "idle"
    /\ ppc' = "running"
    /\ lang_index' = 1
    /\ stage' = "script"
    /\ artifacts' = NoArtifacts
    /\ results' = <<>>
    /\ UNCHANGED <<unitVars, rankVars, cycleVars, voiceVars, autoVars, languages,
                   include_affiliates, test_mode, trace>>

NextStageRenderBeforeVoice(s, affiliates) ==
    CASE s = "script" -> IF affiliates THEN "affiliate" ELSE "render"
      [] s = "affiliate" -> "render"
      [] s = "render" -> "voice"
      [] s = "voice" -> "upload"
      [] s = "upload" -> "script"

\* the statement order inside the try block (lines 90-128)
NextStage(s, affiliates) ==
    CASE s = "script" -> IF affiliates THEN "affiliate" ELSE "voice"
      [] s = "affiliate" -> "voice"
      [] s = "voice" -> "render"
      [] s = "render" -> "upload"
      [] s = "upload" -> "script"

\* results[lang] = value
Put(res, lang, value) ==
    [l \in (DOMAIN res) \cup {lang} |-> IF l = lang THEN value ELSE res[l]]

\* lines 130-136
FullEntry(arts, upload_results, created_at) ==
    [script |-> arts.script, audio_path |-> arts.audio_path,
     video_path |-> arts.video_path, upload_results |-> upload_results,
     created_at |-> created_at]

ErrorEntryNoMessage(message) == [error |-> ""]

\* {'error': str(e)}
ErrorEntry(message) == [error |-> message]

StoreErrorMerged(res, lang, message) ==
    IF lang \in DOMAIN res /\ "error" \notin DOMAIN res[lang]
    THEN Put(res, lang, [script |-> res[lang].script,
                         audio_path |-> res[lang].audio_path,
                         video_path |-> res[lang].video_path,
                         upload_results |-> res[lang].upload_results,
                         created_at |-> res[lang].created_at,
                         error |-> message])
    ELSE Put(res, lang, ErrorEntry(message))

\* line 142: results[lang] = {'error': str(e)}
StoreError(res, lang, message) == Put(res, lang, ErrorEntry(message))

AfterFailureAbort(index) == Len(languages) + 1

AfterFailureRetry(index) == index

\* the except block is inside the for loop: go on with the next language
AfterFailure(index) == index + 1

\* what the stage's call returns when it succeeds
StageOutput(s, arts, lang, run) ==
    CASE s = "script" -> [arts EXCEPT !.script = Artifact("script", lang, run)]
      [] s = "affiliate" -> [arts EXCEPT !.script = Artifact("script+affiliate", lang, run)]
      [] s = "voice" -> [arts EXCEPT !.audio_path = Artifact("audio", lang, run)]
      [] s = "render" -> [arts EXCEPT !.video_path = Artifact("video", lang, run)]
      [] s = "upload" -> arts

Event(run, lang, s, outcome, message) ==
    [run |-> run, lang |-> lang, stage |-> s, outcome |-> outcome, message |-> message]

\* One stage call of the current language, lines 90-142: it returns and the
\* next statement runs (after upload the entry is stored), or it raises and
\* the except block stores the error entry and the loop goes on.
RunStage(s) ==
    /\ ppc = "running"
    /\ lang_index <= Len(languages)
    /\ stage = s
    /\ LET lang == languages[lang_index]
       IN \/ /\ trace' = Append(trace, Event(lang_index, lang, s, "ok", ""))
             /\ IF s = "upload"
                THEN /\ results' = Put(results, lang,
                                       FullEntry(artifacts,
                                                 Artifact("upload", lang, lang_index),
                                                 lang_index))
                     /\ lang_index' = lang_index + 1
                     /\ artifacts' = NoArtifacts
                ELSE /\ artifacts' = StageOutput(s, artifacts, lang, lang_index)
                     /\ UNCHANGED <<results, lang_index>>
             /\ stage' = NextStage(s, include_affiliates)
          \/ \E message \in Messages :
                /\ trace' = Append(trace, Event(lang_index, lang, s, "raised", message))
                /\ results' = StoreError(results, lang, message)
                /\ lang_index' = AfterFailure(lang_index)
                /\ stage' = "script"
                /\ artifacts' = NoArtifacts
    /\ UNCHANGED <<unitVars, rankVars, cycleVars, voiceVars, autoVars, languages,
                   include_affiliates, test_mode, ppc>>

GenerateScript == RunStage("script")
AddAffiliateContent == RunStage("affiliate")
VoiceoverStage == RunStage("voice")
CreateVideo == RunStage("render")
UploadVideo == RunStage("upload")

\* return results
ReturnContent ==
    /\ ppc = "running"
    /\ lang_index > Len(languages)
    /\ ppc' = "returned"
    /\ UNCHANGED <<unitVars, rankVars, cycleVars, voiceVars, autoVars, languages,
                   include_affiliates, test_mode,
                   lang_index, stage, artifacts, results, trace>>

NextPipeline ==
    \/ CreateVideoContent
    \/ GenerateScript
    \/ AddAffiliateContent
    \/ VoiceoverStage
    \/ CreateVideo
    \/ UploadVideo
    \/ ReturnContent

SpecPipeline == InitPipeline /\ [][NextPipeline]_vars

\* Every awaited stage call returns or raises, and the coroutine is then
\* resumed: create_video_content does not stop half-way.
SpecPipelineFair == SpecPipeline /\ WF_vars(NextPipeline)

\* ------------------------------------------------ deferred feedback task
\* Time is counted in hours.
FeedbackDelay == 2      \* asyncio.sleep(7200)
CycleSleep == 24        \* asyncio.sleep(86400)

\* asyncio.create_task(self.collect_feedback_for_videos(results)): the task
\* starts with its asyncio.sleep(7200)
NewTask(res) ==
    [state |-> "sleeping", wake |-> now + FeedbackDelay, results |-> res,
     topic_index |-> 1, lang_index |-> 1]

TaskIds == 1..Len(tasks)

\* The clock advances by one hour while a feedback task is waiting or
\* working.  A timer never fires early; it may fire late.
Tick ==
    /\ \E t \in TaskIds :
          /\ tasks[t].state \in {"sleeping", "collecting"}
          /\ now < tasks[t].wake + MaxLate
    /\ now' = now + 1
    /\ UNCHANGED <<unitVars, rankVars, cycleVars, voiceVars, pipeVars, mpc, cycles, main_wake,
                   tasks, collected>>

\* await asyncio.sleep(7200) returns
FeedbackWakes ==
    \E t \in TaskIds :
        /\ tasks[t].state = "sleeping"
        /\ now >= tasks[t].wake
        /\ tasks' = [tasks EXCEPT ![t].state = "collecting",
                                  ![t].topic_index = 1, ![t].lang_index = 1]
        /\ UNCHANGED <<unitVars, rankVars, cycleVars, voiceVars, pipeVars, mpc, cycles, now,
                       main_wake, collected>>

Collected(t, item, outcome) ==
    [task |-> t, topic |-> tasks[t].topic_index, lang |-> item.lang,
     early |-> now < tasks[t].wake, outcome |-> outcome]

HasUploadResultsAlways(data) == TRUE

\* if 'upload_results' in data
HasUploadResults(data) == "upload_results" \in DOMAIN data

\* One step of the two nested loops (lines 176-185).  A result is a dict
\* language -> entry, iterated in insertion order.  The try block encloses
\* the whole inner loop: when collect_video_metrics raises, the except
\* block logs and the outer loop goes on with the next result.
FeedbackStep ==
    \E t \in TaskIds :
        /\ tasks[t].state = "collecting"
        /\ LET task == tasks[t]
               ti == task.topic_index
               li == task.lang_index
           IN IF ti > Len(task.results)
              THEN /\ tasks' = [tasks EXCEPT ![t].state = "done"]
                   /\ UNCHANGED collected
              ELSE IF li > Len(task.results[ti])
              THEN /\ tasks' = [tasks EXCEPT ![t].topic_index = ti + 1,
                                            ![t].lang_index = 1]
                   /\ UNCHANGED collected
              ELSE IF HasUploadResults(task.results[ti][li].data)
              THEN \/ /\ collected' = Append(collected,
                                             Collected(t, task.results[ti][li], "ok"))
                      /\ tasks' = [tasks EXCEPT ![t].lang_index = li + 1]
                   \/ /\ collected' = Append(collected,
                                             Collected(t, task.results[ti][li], "raised"))
                      /\ tasks' = [tasks EXCEPT ![t].topic_index = ti + 1,
                                                ![t].lang_index = 1]
              ELSE /\ tasks' = [tasks EXCEPT ![t].lang_index = li + 1]
                   /\ UNCHANGED collected
        /\ UNCHANGED <<unitVars, rankVars, cycleVars, voiceVars, pipeVars, mpc, cycles, now,
                       main_wake>>

\* --------------------------------------------------------- SpecFeedback
\* collect_feedback_for_videos(results) on any list of create_video_content
\* results, from the moment its task is created.
UploadedEntry(l) ==
    FullEntry([script |-> Artifact("script", l, 1),
               audio_path |-> Artifact("audio", l, 1),
               video_path |-> Artifact("video", l, 1)],
              Artifact("upload", l, 1), 1)

Items ==
    {[lang |-> l, data |-> IF uploaded THEN UploadedEntry(l) ELSE ErrorEntry("timeout")] :
        l \in Languages, uploaded \in BOOLEAN}

\* the dicts create_video_content can return: one entry per language
ResultDicts ==
    {d \in SeqsUpTo(Items, MaxLangs) :
        \A i, j \in 1..Len(d) : d[i].lang = d[j].lang => i = j}

InitFeedback ==
    /\ RankIdle
    /\ CycleIdle
    /\ VoiceIdle
    /\ PipeIdle
    /\ mpc = "none"
    /\ cycles = 0
    /\ now = 0
    /\ main_wake = 0
    /\ \E res \in SeqsUpTo(ResultDicts, MaxTopics) : tasks = <<NewTask(res)>>
    /\ collected = <<>>
    /\ UnitIdle

NextFeedback ==
    \/ Tick
    \/ FeedbackWakes
    \/ FeedbackStep

SpecFeedback == InitFeedback /\ [][NextFeedback]_vars

\* ------------------------------------------------------------- SpecAuto
\* main() with --auto-mode: while True: run_automation_cycle(); sleep a day.
InitAuto ==
    /\ RankIdle
    /\ pc = "off"
    /\ gathered = NoGather
    /\ idx = 1
    /\ started = <<>>
    /\ aggregate = <<>>
    /\ VoiceIdle
    /\ PipeIdle
    /\ mpc = "start"
    /\ cycles = 0
    /\ now = 0
    /\ main_wake = 0
    /\ tasks = <<>>
    /\ collected = <<>>
    /\ UnitIdle

\* main calls run_automation_cycle, which is about to call
\* generate_trending_content(daily_video_count)
RunAutomationCycle ==
    /\ mpc = "start"
    /\ cycles < MaxCycles
    /\ mpc' = "cycle"
    /\ cycles' = cycles + 1
    /\ pc' = "idle"
    /\ gathered' = NoGather
    /\ idx' = 1
    /\ aggregate' = <<>>
    /\ given' = <<>>
    /\ trends' = <<>>
    /\ scored' = <<>>
    /\ topics' = <<>>
    /\ UNCHANGED <<unitVars, count, calls, prev, started, voiceVars, pipeVars, now, main_wake,
                   tasks, collected>>

CycleReturnsAfterFeedback ==
    /\ mpc = "cycle"
    /\ pc = "returned"
    /\ tasks' = Append(tasks, [NewTask(aggregate) EXCEPT
                                  !.state = "done",
                                  !.topic_index = Len(aggregate) + 1])
    /\ now' = now + FeedbackDelay
    /\ main_wake' = now' + CycleSleep
    /\ mpc' = "sleep"
    /\ UNCHANGED <<unitVars, rankVars, cycleVars, voiceVars, pipeVars, cycles, collected>>

\* lines 158-163: generate_trending_content returned; the feedback task is
\* created, not awaited, and run_automation_cycle returns to main, which
\* starts asyncio.sleep(86400)
CycleReturns ==
    /\ mpc = "cycle"
    /\ pc = "returned"
    /\ tasks' = Append(tasks, NewTask(aggregate))
    /\ main_wake' = now + CycleSleep
    /\ mpc' = "sleep"
    /\ UNCHANGED <<unitVars, rankVars, cycleVars, voiceVars, pipeVars, cycles, now,
                   collected>>

\* lines 165-167 and 239-241: generate_trending_content raised;
\* run_automation_cycle logs and re-raises, main logs and calls sys.exit(1).
\* The event loop is closed and cancels the tasks still pending.
CycleRaises ==
    /\ mpc = "cycle"
    /\ pc = "raised"
    /\ mpc' = "exited"
    /\ tasks' = [t \in TaskIds |->
                    IF tasks[t].state = "done" THEN tasks[t]
                    ELSE [tasks[t] EXCEPT !.state = "cancelled"]]
    /\ UNCHANGED <<unitVars, rankVars, cycleVars, voiceVars, pipeVars, cycles, now, main_wake,
                   collected>>

\* await asyncio.sleep(86400) returns.  The event loop runs its timers in
\* deadline order, so the feedback sleeps that are due earlier have ended;
\* with nothing else to run the clock passes to the deadline.
MainWakes ==
    /\ mpc = "sleep"
    /\ \A t \in TaskIds : tasks[t].state = "sleeping" => tasks[t].wake > main_wake
    /\ now' = IF now < main_wake THEN main_wake ELSE now
    /\ mpc' = "start"
    /\ UNCHANGED <<unitVars, rankVars, cycleVars, voiceVars, pipeVars, cycles, main_wake,
                   tasks,
                   collected>>

\* Ctrl+C while the process runs.  asyncio.run cancels the main task: the
\* CancelledError is raised at the await main is suspended in, no handler
\* on the way catches it (it is not an Exception), and the event loop is
\* closed with every task still pending cancelled.
Interrupt ==
    /\ mpc \in {"start", "cycle", "sleep"}
    /\ mpc' = "stopped"
    /\ pc' = IF mpc = "cycle" /\ pc \in {"idle", "gather", "loop"} THEN "cancelled" ELSE pc
    /\ tasks' = [t \in TaskIds |->
                    IF tasks[t].state = "done" THEN tasks[t]
                    ELSE [tasks[t] EXCEPT !.state = "cancelled"]]
    /\ UNCHANGED <<unitVars, rankVars, gathered, idx, started, aggregate, voiceVars,
                   pipeVars, cycles, now, main_wake, collected>>

NextAuto ==
    \/ RunAutomationCycle
    \/ GenerateTrendingContent
    \/ GetGoogleTrends
    \/ GetYoutubeTrends
    \/ GetRedditTrends
    \/ GetTrendingTopicsReturns
    \/ ProcessTopic
    \/ ReturnResults
    \/ CycleReturns
    \/ CycleRaises
    \/ MainWakes
    \/ Interrupt
    \/ Tick
    \/ FeedbackWakes
    \/ FeedbackStep

SpecAuto == InitAuto /\ [][NextAuto]_vars

\* ------------------------------------------------------------ SpecSplit
\* _split_text_for_tts(text, max_chars) on any text.  A text is a sequence
\* of characters; "a" stands for any character that is neither a full stop
\* nor white space.
Chars == {"a", ".", " "}

\* text.split('. '): the pieces between the occurrences of '. ', found from
\* left to right; cur is the piece being read
RECURSIVE SplitOnDotSpace(_, _)
SplitOnDotSpace(t, cur) ==
    IF t = <<>> THEN <<cur>>
    ELSE IF Len(t) >= 2 /\ t[1] = "." /\ t[2] = " "
    THEN <<cur>> \o SplitOnDotSpace(SubSeq(t, 3, Len(t)), <<>>)
    ELSE SplitOnDotSpace(Tail(t), Append(cur, Head(t)))

RECURSIVE LStrip(_)
LStrip(t) == IF t # <<>> /\ Head(t) = " " THEN LStrip(Tail(t)) ELSE t

RECURSIVE RStrip(_)
RStrip(t) ==
    IF t # <<>> /\ t[Len(t)] = " " THEN RStrip(SubSeq(t, 1, Len(t) - 1)) ELSE t

\* str.strip()
Strip(t) == RStrip(LStrip(t))

\* the for loop over sentences and the final append (lines 137-148)
RECURSIVE SplitLoop(_, _, _, _)
SplitLoop(sentences, current_chunk, chunks, limit) ==
    IF sentences = <<>>
    THEN IF current_chunk # <<>> THEN Append(chunks, Strip(current_chunk)) ELSE chunks
    ELSE LET sentence == Head(sentences)
         IN IF Len(current_chunk \o sentence \o <<".", " ">>) <= limit
            THEN SplitLoop(Tail(sentences), current_chunk \o sentence \o <<".", " ">>,
                           chunks, limit)
            ELSE SplitLoop(Tail(sentences), sentence \o <<".", " ">>,
                           IF current_chunk # <<>>
                           THEN Append(chunks, Strip(current_chunk))
                           ELSE chunks,
                           limit)

\* lines 130-148
SplitTextForTtsOf(t, limit) ==
    IF Len(t) <= limit THEN <<t>>
    ELSE SplitLoop(SplitOnDotSpace(t, <<>>), <<>>, <<>>, limit)

InitSplit ==
    /\ RankIdle
    /\ CycleIdle
    /\ VoiceIdle
    /\ PipeIdle
    /\ AutoIdle
    /\ RedditIdle
    /\ text \in SeqsUpTo(Chars, MaxTextLen)
    /\ max_chars \in 1..MaxLimit
    /\ text_chunks = <<>>
    /\ split_pc = "idle"

SplitTextForTts ==
    /\ split_pc = "idle"
    /\ text_chunks' = SplitTextForTtsOf(text, max_chars)
    /\ split_pc' = "done"
    /\ UNCHANGED <<rankVars, cycleVars, voiceVars, pipeVars, autoVars, redditVars, text,
                   max_chars>>

NextSplit == SplitTextForTts

SpecSplit == InitSplit /\ [][NextSplit]_vars

\* ----------------------------------------------------------- SpecReddit
\* _get_reddit_trends: one request per subreddit.  The clock counts in
\* units of the rate-limit delay.
RateDelay == 1          \* asyncio.sleep(0.5)

\* status 200 with posts; another status; an exception in session.get,
\* response.json() or while the posts are read
RequestOutcomes == {"ok", "status", "raised"}

InitReddit ==
    /\ RankIdle
    /\ CycleIdle
    /\ VoiceIdle
    /\ PipeIdle
    /\ AutoIdle
    /\ SplitIdle
    /\ rpc = "idle"
    /\ sub_index = 1
    /\ rclock = 0
    /\ reddit_trends = <<>>
    /\ requests = <<>>

\* trends = [] and the session is opened; if that raises, the outer except
\* block returns []
GetRedditTrendsStarts ==
    /\ rpc = "idle"
    /\ \/ rpc' = "request"
       \/ rpc' = "returned"
    /\ sub_index' = 1
    /\ reddit_trends' = <<>>
    /\ UNCHANGED <<rankVars, cycleVars, voiceVars, pipeVars, autoVars, splitVars, rclock,
                   requests>>

\* The try block of one loop iteration (lines 659-689).  The request takes
\* some time.  Status 200 appends the popular posts, another status appends
\* nothing, and both go on to the sleep; an exception is logged and
\* `continue` starts the next iteration, passing over the sleep.
RedditRequest ==
    /\ rpc = "request"
    /\ sub_index <= MaxSubreddits
    /\ \E outcome \in RequestOutcomes, duration \in 0..1,
          posts \in SeqsUpTo(RedditTopics, 1) :
          /\ requests' = Append(requests,
                                [subreddit |-> sub_index, sent |-> rclock,
                                 ended |-> rclock + duration, outcome |-> outcome])
          /\ rclock' = rclock + duration
          /\ reddit_trends' = IF outcome = "ok" THEN reddit_trends \o posts
                              ELSE reddit_trends
          /\ IF outcome = "raised"
             THEN /\ sub_index' = sub_index + 1
                  /\ rpc' = "request"
             ELSE /\ sub_index' = sub_index
                  /\ rpc' = "sleep"
    /\ UNCHANGED <<rankVars, cycleVars, voiceVars, pipeVars, autoVars, splitVars>>

\* await asyncio.sleep(0.5): it lasts the delay or longer
RedditSleep ==
    /\ rpc = "sleep"
    /\ \E extra \in 0..1 : rclock' = rclock + RateDelay + extra
    /\ sub_index' = sub_index + 1
    /\ rpc' = "request"
    /\ UNCHANGED <<rankVars, cycleVars, voiceVars, pipeVars, autoVars, splitVars,
                   reddit_trends, requests>>

\* return trends
GetRedditTrendsReturns ==
    /\ rpc = "request"
    /\ sub_index > MaxSubreddits
    /\ rpc' = "returned"
    /\ UNCHANGED <<rankVars, cycleVars, voiceVars, pipeVars, autoVars, splitVars,
                   sub_index, rclock, reddit_trends, requests>>

NextReddit ==
    \/ GetRedditTrendsStarts
    \/ RedditRequest
    \/ RedditSleep
    \/ GetRedditTrendsReturns

SpecReddit == InitReddit /\ [][NextReddit]_vars

\* ======================================================================
\* Properties
\* ======================================================================
Score(i) == trends[i].confidence_score

\* C1: the list returned by the ranking step (and its truncation to count)
\* is in non-increasing order of final score.
C1_RankedDescending ==
    calls >= 1 =>
        /\ \A i, j \in 1..Len(scored) : i < j => Score(scored[i]) >= Score(scored[j])
        /\ \A i, j \in 1..Len(topics) : i < j => Score(topics[i]) >= Score(topics[j])

\* a later candidate with a strictly higher score was moved to the front
C1_Witness ==
    /\ calls = 1
    /\ Len(topics) >= 2
    /\ topics[1] > topics[2]
    /\ Score(topics[1]) > Score(topics[2])

SourcePriority(source) ==
    CASE source = "youtube" -> 3
      [] source = "google_trends" -> 2
      [] source = "reddit" -> 1
      [] OTHER -> 0

\* C2 as claimed: among equal scores the higher-priority source comes first,
\* and among equal sources the earlier candidate.
C2_TiesBySourcePriority ==
    calls >= 1 =>
        \A i, j \in 1..Len(scored) :
            (i < j /\ Score(scored[i]) = Score(scored[j])) =>
                LET pi == SourcePriority(trends[scored[i]].source)
                    pj == SourcePriority(trends[scored[j]].source)
                IN pi > pj \/ (pi = pj /\ scored[i] < scored[j])

\* C2: among candidates with equal final score the one earlier in the input
\* list comes first, whatever the two sources are.
C2_TiesKeepInputOrder ==
    calls >= 1 =>
        \A i, j \in 1..Len(scored) :
            (i < j /\ Score(scored[i]) = Score(scored[j])) => scored[i] < scored[j]

\* two equal scores, the lower-priority source first
C2_Witness ==
    /\ calls = 1
    /\ \E i, j \in 1..Len(scored) :
          /\ i < j
          /\ Score(scored[i]) = Score(scored[j])
          /\ SourcePriority(trends[scored[i]].source)
               < SourcePriority(trends[scored[j]].source)

\* the multiplier tables as the claim lists them, in tenths
ClaimedCategoryMultiplier(c) ==
    IF c = "finance" THEN 13 ELSE IF c = "tech" THEN 12
    ELSE IF c = "education" THEN 11 ELSE IF c = "lifestyle" THEN 9
    ELSE IF c = "entertainment" THEN 8 ELSE 10

ClaimedSourceMultiplier(s) ==
    IF s = "youtube" THEN 12 ELSE IF s = "google_trends" THEN 11 ELSE 9

ClaimedVolumeMultiplier(v) ==
    IF v > 1000 THEN 12 ELSE IF 500 < v /\ v <= 1000 THEN 11 ELSE 10

ClaimedScore(c) ==
    LET product == (c.confidence_score \div 1000)
                     * ClaimedCategoryMultiplier(c.category)
                     * ClaimedSourceMultiplier(c.source)
                     * ClaimedVolumeMultiplier(c.search_volume)
    IN IF product > ScoreUnit THEN ScoreUnit
       ELSE IF product < 0 THEN 0 ELSE product

\* C3: the score written by the ranking step is confidence x category x
\* source x volume multiplier, clamped to [0, 1].
C3_ScoreFormula ==
    calls = 1 => \A i \in 1..Len(given) : Score(i) = ClaimedScore(given[i])

\* the spec's example: "AI money" scores 1.0 and outranks "funny cat" (0.432)
C3_Witness ==
    /\ calls = 1
    /\ given = <<FunnyCat, AIMoney>>
    /\ count = 1
    /\ topics = <<2>>
    /\ Score(2) = ScoreUnit
    /\ Score(1) = 4320000

\* C4 as claimed: ranking leaves every field of every input candidate
\* unchanged, and a second ranking returns the same scores in the same order.
C4_RankingIsPure ==
    /\ calls >= 1 => trends = given
    /\ calls = 2 => (scored = prev.order /\ ScoresOf(trends, scored) = prev.scores)

\* C4: ranking changes no field of an input candidate except
\* confidence_score, which it overwrites with the final score; a second
\* ranking of the same list applies the multipliers to that score again.
C4_OnlyScoreOverwritten ==
    /\ calls >= 1 =>
          \A i \in 1..Len(given) :
              [trends[i] EXCEPT !.confidence_score = given[i].confidence_score] = given[i]
    /\ calls = 1 => \A i \in 1..Len(given) : Score(i) = FinalScore(given[i])
    /\ calls = 2 =>
          \A i \in 1..Len(given) :
              Score(i) = FinalScore([given[i] EXCEPT
                                       !.confidence_score = FinalScore(given[i])])

\* a second ranking that returned other scores than the first
C4_Witness ==
    /\ calls = 2
    /\ Len(scored) >= 1
    /\ ScoresOf(trends, scored) # prev.scores
    /\ trends # given

Untitled == { i \in 1..Len(given) : given[i].title = NoTitle }

\* C6 as claimed: a candidate without title is dropped, the result is
\* shorter by the number of such candidates, the others are all ranked.
C6_UntitledDropped ==
    calls >= 1 =>
        /\ Len(scored) = Len(given) - Cardinality(Untitled)
        /\ \A i \in 1..Len(given) :
              i \notin Untitled => \E k \in 1..Len(scored) : scored[k] = i

\* C6: the ranking step does not read the title: a candidate without title
\* is scored and ranked like any other, so the result has as many entries
\* as the input, each input candidate exactly once.
C6_UntitledKept ==
    calls >= 1 =>
        /\ Len(scored) = Len(given)
        /\ \A i \in 1..Len(given) :
              Cardinality({ k \in 1..Len(scored) : scored[k] = i }) = 1

\* a list with a title-less candidate next to a well-formed one, ranked
C6_Witness ==
    /\ calls = 1
    /\ Len(given) >= 2
    /\ \E i \in Untitled : \E k \in 1..Len(scored) : scored[k] = i
    /\ Untitled # 1..Len(given)

\* C5 as claimed: with count = n and at least n ranked candidates,
\* create_video_content is started for exactly the n highest-scored ones.
C5_TopNCarried ==
    (pc \in {"returned", "raised"} /\ count <= Len(scored)) =>
        started = SubSeq(scored, 1, count)

Usable(path) == path \in AudioPaths /\ disk[path].kind # "absent"

\* C7 as claimed: whatever the providers, the merge and the silent-audio
\* generator answer, create_voiceover returns a non-empty path to an audio
\* file that was actually produced.
C7_AlwaysUsableArtifact == vpc = "done" => Usable(result)

\* C8 as claimed: when any chunk of the primary tier fails, no artifact
\* built from the other chunks is returned and the secondary provider is
\* tried.
C8_ChunkFailureFailsTier ==
    (vpc = "done" /\ api_key /\ \E k \in 1..NumChunks : env.chunk[k] # "ok") =>
        /\ result.kind \notin {"chunk", "final"}
        /\ \E k \in 1..Len(attempts) : attempts[k].tier = 2

\* the primary provider fails: it is unavailable or answers no request
PrimaryProviderFails == ~api_key \/ \A k \in 1..NumChunks : env.chunk[k] # "ok"

\* the artifact comes from the terminal tier
Degraded == \E k \in 1..Len(attempts) : attempts[k].tier = 3

C10_BothFailSilentPlaceholder ==
    /\ (vpc = "done" /\ PrimaryProviderFails /\ env.gtts # "ok") =>
          /\ result = SilentPath
          /\ disk[SilentPath] = Silence(SilentSeconds)
          /\ Degraded
          /\ Len(attempts) = 3
    /\ (vpc = "done" /\ Degraded) => (PrimaryProviderFails /\ env.gtts # "ok")


\* ------------------------------------------------------------ pipeline
Range(f) == {f[i] : i \in DOMAIN f}
IsPrefix(a, b) == Len(a) <= Len(b) /\ \A i \in 1..Len(a) : a[i] = b[i]
Runs == 1..Len(languages)
RunEvents(r) == SelectSeq(trace, LAMBDA e : e.run = r)
StagesOf(r) == [i \in 1..Len(RunEvents(r)) |-> RunEvents(r)[i].stage]
RunFailed(r) == \E i \in 1..Len(trace) : trace[i].run = r /\ trace[i].outcome = "raised"
RunUploaded(r) ==
    \E i \in 1..Len(trace) :
        trace[i].run = r /\ trace[i].stage = "upload" /\ trace[i].outcome = "ok"
Failure(r) == CHOOSE e \in Range(trace) : e.run = r /\ e.outcome = "raised"
LastRun(l) == CHOOSE r \in Runs : languages[r] = l /\ \A q \in Runs : languages[q] = l => q <= r
ClaimedOrder ==
    IF include_affiliates
    THEN <<"script", "affiliate", "voice", "render", "upload">>
    ELSE <<"script", "voice", "render", "upload">>
ArtifactKeys == {"script", "audio_path", "video_path", "upload_results", "created_at"}
IsError(entry) == "error" \in DOMAIN entry
CompleteFor(l, r) ==
    [script |-> Artifact(IF include_affiliates THEN "script+affiliate" ELSE "script", l, r),
     audio_path |-> Artifact("audio", l, r),
     video_path |-> Artifact("video", l, r),
     upload_results |-> Artifact("upload", l, r),
     created_at |-> r]

\* C11: within one language run the stages execute in the order script,
\* enrichment (when enabled), voice, render, upload; a stage starts only
\* after its predecessor returned, and nothing runs after a stage raised.
C11_StagesInOrder ==
    \A r \in Runs :
        /\ IsPrefix(StagesOf(r), ClaimedOrder)
        /\ \A i \in 1..(Len(RunEvents(r)) - 1) : RunEvents(r)[i].outcome = "ok"

C11_Witness ==
    /\ ppc = "returned"
    /\ include_affiliates
    /\ \E r \in Runs : StagesOf(r) = Stages /\ ~RunFailed(r)
    /\ \E r \in Runs : RunFailed(r) /\ Failure(r).stage = "voice" /\ Len(RunEvents(r)) = 3

\* C12: a failure in one language's run leaves every other language's
\* result as it would be without the failure (complete, with its own
\* script, audio, video and upload artifacts), every requested language is
\* still attempted, and the error entries are exactly the failed languages.
C12_LanguagesIsolated ==
    ppc = "returned" =>
        /\ \A r \in Runs : Len(RunEvents(r)) > 0
        /\ DOMAIN results = Range(languages)
        /\ \A l \in DOMAIN results :
              IF RunFailed(LastRun(l))
              THEN IsError(results[l])
              ELSE results[l] = CompleteFor(l, LastRun(l))

C12_Witness ==
    /\ ppc = "returned"
    /\ Len(languages) = 2
    /\ languages[1] # languages[2]
    /\ RunFailed(1) /\ Failure(1).stage = "voice"
    /\ results[languages[2]] = CompleteFor(languages[2], 2)
    /\ {l \in DOMAIN results : IsError(results[l])} = {languages[1]}

\* C13 (as stated): in the returned result, the error record of a failed
\* language carries the name of the stage that failed and the failure message.
C13_ErrorNamesStage ==
    \A l \in DOMAIN results :
        ppc = "returned" /\ IsError(results[l]) =>
            /\ \E f \in DOMAIN results[l] : results[l][f] = Failure(LastRun(l)).stage
            /\ \E f \in DOMAIN results[l] : results[l][f] = Failure(LastRun(l)).message

\* C13 (amended): in the returned result, the error record of a failed
\* language has the single field error, holding the failure message; the
\* stage is not recorded.
C13_ErrorRecordIsMessage ==
    \A l \in DOMAIN results :
        ppc = "returned" /\ IsError(results[l]) =>
            /\ RunFailed(LastRun(l))
            /\ results[l] = [error |-> Failure(LastRun(l)).message]

C13_Witness ==
    /\ ppc = "returned"
    /\ \E l \in DOMAIN results :
          /\ IsError(results[l])
          /\ Failure(LastRun(l)).stage = "render"
          /\ results[l].error = "timeout"

\* C14: every entry of the result is either an error record or the full
\* artifact set (script, audio path, video path, upload result), never
\* both and never neither.
C14_ErrorOrFullArtifacts ==
    \A l \in DOMAIN results :
        \/ DOMAIN results[l] = {"error"}
        \/ /\ DOMAIN results[l] = ArtifactKeys
           /\ results[l].script.kind \in {"script", "script+affiliate"}
           /\ results[l].audio_path.kind = "audio"
           /\ results[l].video_path.kind = "video"
           /\ results[l].upload_results.kind = "upload"

C14_Witness ==
    /\ ppc = "returned"
    /\ \E l \in DOMAIN results : DOMAIN results[l] = {"error"}
    /\ \E l \in DOMAIN results : DOMAIN results[l] = ArtifactKeys
    /\ languages[1] = languages[Len(languages)] => Len(languages) = 1


\* ------------------------------------------------------------ aggregate
\* C15 (trend-based part): when generate_trending_content has ended, its
\* aggregate holds exactly one entry for every requested topic, none
\* missing and none twice.
C15_OneEntryPerRequestedTopic ==
    pc \in {"returned", "raised"} =>
        /\ Len(aggregate) = Len(topics)
        /\ \A i \in 1..Len(aggregate) : aggregate[i] = topics[i]

\* ------------------------------------------------------ source failures
SourceOrder == <<"google_trends", "youtube", "reddit">>
Succeeded(s) == IF gathered[s].failed THEN <<>> ELSE gathered[s].list
IsPermutation(q, n) == Len(q) = n /\ \A k \in 1..n : \E j \in 1..n : q[j] = k

\* C16: a failed source is not fatal to get_trending_topics: it contributes
\* no candidate, and every candidate returned by a source that succeeded is
\* ranked and (up to count) returned.
C16_SourceFailureNotFatal ==
    pc \in {"loop", "raised", "returned"} =>
        /\ given = Succeeded(SourceOrder[1]) \o Succeeded(SourceOrder[2])
                      \o Succeeded(SourceOrder[3])
        /\ \A s \in Sources : gathered[s].failed =>
              \A i \in 1..Len(given) : given[i].source # s
        /\ IsPermutation(scored, Len(given))
        /\ topics = Slice(scored, count)

C16_Witness ==
    /\ pc = "loop"
    /\ gathered["google_trends"].failed
    /\ ~gathered["reddit"].failed
    /\ Len(gathered["reddit"].list) = 2
    /\ Len(scored) >= 2
    /\ Len(topics) >= 1


\* ----------------------------------------------- continuous mode, feedback
LastTask == tasks[Len(tasks)]
Eligible(t) ==
    {p \in (1..MaxTopics + 1) \X (1..MaxLangs + 1) :
        /\ p[1] <= Len(tasks[t].results)
        /\ p[2] <= Len(tasks[t].results[p[1]])
        /\ "upload_results" \in DOMAIN tasks[t].results[p[1]][p[2]].data}
LangAt(t, p) == tasks[t].results[p[1]][p[2]].lang
Invocations(t, p) ==
    Cardinality({k \in 1..Len(collected) :
                    /\ collected[k].task = t
                    /\ collected[k].topic = p[1]
                    /\ collected[k].lang = LangAt(t, p)})

\* C17: when run_automation_cycle returns, it has handed its results to a
\* new feedback task and that task is still pending, its 2-hour delay not
\* yet elapsed.
C17_ReturnsWhileFeedbackPending ==
    [][(mpc = "cycle" /\ mpc' = "sleep") =>
          /\ Len(tasks') = Len(tasks) + 1
          /\ tasks'[Len(tasks')].state = "sleeping"
          /\ tasks'[Len(tasks')].results = aggregate
          /\ tasks'[Len(tasks')].wake = now' + FeedbackDelay
          /\ pc' = "returned"]_vars

C17_Witness ==
    /\ mpc = "sleep"
    /\ cycles = 2
    /\ pc = "returned"
    /\ Len(tasks) = 2
    /\ LastTask.state = "sleeping"
    /\ now < LastTask.wake

\* C18: a feedback task never calls the metrics collector before its delay
\* has elapsed, and when it has finished it has called the collector
\* exactly once for each eligible upload.
C18_AfterDelayOncePerUpload ==
    /\ \A k \in 1..Len(collected) : ~collected[k].early
    /\ \A t \in TaskIds :
          tasks[t].state = "done" =>
              \A p \in Eligible(t) : Invocations(t, p) = 1

\* C19: when the collector raised for one upload, the finished feedback
\* task has still called it for every other eligible upload, the other
\* languages of the same topic included.
C19_ErrorCaughtPerUpload ==
    \A t \in TaskIds :
        (/\ tasks[t].state = "done"
         /\ \E k \in 1..Len(collected) :
               collected[k].task = t /\ collected[k].outcome = "raised")
        => \A p \in Eligible(t) : Invocations(t, p) >= 1

\* C20: in continuous mode a failed cycle does not end the process.
C20_LoopSurvivesFailedCycle ==
    (mpc # "none" /\ pc = "raised") => mpc # "exited"


\* --------------------------------------------------------- voice, again
AllChunks == [k \in 1..NumChunks |-> k - 1]

\* C24: the tiers are tried in priority order, each only after the one
\* before it has failed (or was unavailable), and none after a success: the
\* secondary provider runs only after a failed primary tier, the silent
\* placeholder only after both have failed.
C24_TiersInPriorityOrder ==
    /\ \A i \in 1..Len(attempts) :
          /\ attempts[i].tier = i
          /\ i > 1 => attempts[i - 1].outcome = "failure"
    /\ vpc = "fallback" => attempts = <<Attempt(1, "failure")>>
    /\ vpc = "silent" => attempts = <<Attempt(1, "failure"), Attempt(2, "failure")>>
    /\ disk[FallbackPath].kind # "absent" =>
          (Len(attempts) >= 1 /\ attempts[1].outcome = "failure")
    /\ disk[SilentPath].kind # "absent" =>
          (Len(attempts) = 3 /\ attempts[1].outcome = "failure"
                             /\ attempts[2].outcome = "failure")

C24_Witness ==
    /\ vpc = "done"
    /\ api_key
    /\ Len(attempts) = 3
    /\ disk[SilentPath] = Silence(SilentSeconds)
    /\ disk[FallbackPath].kind = "absent"

\* C26 as claimed: an artifact the primary tier returns for a text of more
\* than one chunk is the concatenation of all chunks in their order.
C26_PrimaryArtifactIsWholeText ==
    (vpc = "done" /\ NumChunks > 1 /\ attempts = <<Attempt(1, "success")>>) =>
        /\ Usable(result)
        /\ disk[result] = Speech(AllChunks)

\* C29 as claimed: the voice_configs table always equals its value at
\* construction.
C29_VoiceConfigsReadOnly == voice_configs = VoiceConfigsAtInit


\* ------------------------------------------------------------ test mode
\* C22 as claimed: with the test-mode flag set the uploader is never
\* called, for any language.
C22_TestModeSkipsUpload ==
    test_mode => \A k \in 1..Len(trace) : trace[k].stage # "upload"

\* ------------------------------------------------------- sibling topics
\* C23 as claimed: generate_trending_content never raises, and when it has
\* ended every ranked topic has been taken through the loop.
C23_TopicFailureKeepsSiblings ==
    /\ pc # "raised"
    /\ pc = "returned" => idx = Len(topics) + 1


\* ------------------------------------------------------ feedback payload
\* C30: the metrics collector is called only for entries that hold an
\* upload result, never for an error record.
C30_OnlyUploadsCollected ==
    \A k \in 1..Len(collected) :
        \E p \in Eligible(collected[k].task) :
            /\ p[1] = collected[k].topic
            /\ LangAt(collected[k].task, p) = collected[k].lang

\* a finished task whose first topic holds an error record for one language
\* and an upload for the other: exactly the upload was collected
C30_Witness ==
    /\ tasks[1].state = "done"
    /\ Len(tasks[1].results) >= 1
    /\ Len(tasks[1].results[1]) = 2
    /\ IsError(tasks[1].results[1][1].data)
    /\ ~IsError(tasks[1].results[1][2].data)
    /\ \E k \in 1..Len(collected) :
          collected[k].topic = 1 /\ collected[k].lang = tasks[1].results[1][2].lang
    /\ \A k \in 1..Len(collected) :
          collected[k].topic = 1 => collected[k].lang # tasks[1].results[1][1].lang


\* ------------------------------------------------------------ interrupt
\* C21 as claimed: when an interrupt has stopped the continuous loop, the
\* cycle that was in flight has run to completion.
C21_InterruptLetsCycleFinish == mpc = "stopped" => pc # "cancelled"


\* ------------------------------------------------- order of the languages
\* the loop has reached language number r / its branch is over
Begun(r) == ppc # "idle" /\ lang_index >= r
Ended(r) == RunFailed(r) \/ RunUploaded(r)
TwoInProgress ==
    \E r1, r2 \in Runs : r1 # r2 /\ Begun(r1) /\ ~Ended(r1) /\ Begun(r2) /\ ~Ended(r2)

\* C27 (as stated): with more than one language requested, the branches run
\* concurrently: a state is reached in which two of them are in progress.
C27_BranchesOverlap == (Len(languages) >= 2) => <>TwoInProgress

\* C27 (amended): the languages are processed one at a time in list order:
\* never are two branches in progress, a branch begins only when the one
\* before it has ended, and the stage calls of different languages do not
\* interleave.
C27_LanguagesOneAtATime ==
    /\ ~TwoInProgress
    /\ \A r \in Runs : (r > 1 /\ Begun(r)) => Ended(r - 1)
    /\ \A k \in 1..(Len(trace) - 1) :
          /\ trace[k].run <= trace[k + 1].run
          /\ trace[k].run = trace[k + 1].run =>
                (trace[k].outcome = "ok" /\ trace[k].stage # "upload")

C27_Witness ==
    /\ ppc = "running"
    /\ Len(languages) = 2
    /\ lang_index = 2
    /\ stage = "render"
    /\ RunUploaded(1)
    /\ ~Ended(2)


\* ------------------------------------------------------- text splitting
\* C25 as claimed: every chunk _split_text_for_tts returns is at most
\* max_chars long.
C25_ChunksWithinLimit ==
    split_pc = "done" => \A i \in 1..Len(text_chunks) : Len(text_chunks[i]) <= max_chars


\* --------------------------------------------------------- rate limiting
\* C28 as claimed: between the end of one forum request and the sending of
\* the next the fixed delay has elapsed, whatever the earlier request's
\* outcome.
C28_DelayBetweenRequests ==
    \A k \in 1..(Len(requests) - 1) :
        requests[k + 1].sent - requests[k].ended >= RateDelay

=============================================================================
